---- MODULE Spec2Model ----
(***************************************************************************)
(* Model of person_tracker_osc.py: main() constructs a PersonTrackerOSC    *)
(* and calls run(), a single threaded capture -> infer -> publish ->       *)
(* render loop wrapped in try/finally with cleanup().                      *)
(*                                                                         *)
(* Coordinates are floats in the program; here they are integers counting  *)
(* tenths (One = 1.0, Half = 0.5).  Wall clock time is counted in ticks of *)
(* half a second (OneSec = 1.0 s).  fps is the exact quotient              *)
(* frame_count / elapsed, kept as the pair <<numerator, denominator>>.     *)
(***************************************************************************)
EXTENDS Integers, Sequences, FiniteSets, TLC

\* ------------------------------------------------------------ bounds
MaxFrames == 3      \* frames the camera delivers before its read fails
MaxTime == 4        \* last clock reading (ticks) the model follows
MaxAdvance == 2     \* most ticks that pass between two clock readings

\* --------------------------------------------------- program constants
Zero == 0           \* 0.0 in tenths
One == 10           \* 1.0 in tenths
Half == 5           \* 0.5 in tenths
OneSec == 2         \* 1.0 s in ticks
TimestampStep == 33 \* ms added to timestamp_ms per frame
QuitKey == 113      \* ord('q')
ByteMask == 256     \* x & 0xFF is x modulo 256

\* Raw nose coordinates the detector may report (tenths): below, on and
\* above both ends of [0.0, 1.0].
RawValues == {-2, 0, 3, 7, 10, 15}

\* Key codes cv2.waitKey may return: -1 (no key), 'q', 'Q', 'a', and 'q'
\* with modifier bits above the low byte.
KeyCodes == {-1, 113, 81, 97, 113 + 256}

AddrX == "/stage/person1/x"
AddrY == "/stage/person1/y"

VARIABLES
    pc,              \* position of the single thread
    detector,        \* self.detector: "none" | "open" | "closed"
    cap,             \* self.cap: "none" | "unopened" | "open" | "released"
    windows,         \* display windows: "none" | "open" | "destroyed"
    last_x, last_y,  \* self.last_x, self.last_y
    person_detected, \* self.person_detected
    fps,             \* self.fps as <<numerator, denominator>>
    frame_count,     \* self.frame_count
    start_time,      \* self.start_time
    timestamp_ms,    \* self.timestamp_ms
    now,             \* the latest value time.time() returned
    elapsed,         \* local of update_fps
    pose_landmarks,  \* detection_result.pose_landmarks of the current frame
    xy,              \* locals x, y of run(): <<x, y>>, <<>> before first use
    sent,            \* messages the transport accepted during this frame
    attempts,        \* addresses send_message was called with this frame
    shown,           \* arguments of the latest draw_info_overlay call
    trigger,         \* why the loop was left: "none" | "read_fail" | "quit" | "exception"
    exc,             \* an exception reached main()
    entered,         \* run() was entered
    last_ts,         \* timestamp handed to the latest detect_for_video call
    nRead, nInfer, nX, nY, nFail, nCleanup, nFpsUpdates

tracker == <<last_x, last_y, person_detected, fps, frame_count, start_time, timestamp_ms>>
resources == <<detector, cap, windows>>
frameLocals == <<pose_landmarks, xy, sent, attempts, shown, elapsed>>
counters == <<nRead, nInfer, nX, nY, nFail, nCleanup, nFpsUpdates, last_ts>>
vars == <<pc, tracker, resources, frameLocals, counters, now, trigger, exc, entered>>

\* ------------------------------------------------------ pure functions
Min(a, b) == IF b < a THEN b ELSE a
Max(a, b) == IF b > a THEN b ELSE a

\* Variant of clamp that forgets the upper limit.
clampNoUpper(v) == Max(Zero, v)
\* max(0.0, min(1.0, v))
clamp(v) == Max(Zero, Min(One, v))

\* landmarks is the ordered landmark list of one pose; only index 0 (the
\* nose) is read, so the list is modelled by its first element.
get_closest_person_position(landmarks) ==
    LET nose == landmarks[1]
    IN  <<clamp(nose.x), clamp(nose.y)>>

Landmarks == {<<[x |-> rx, y |-> ry]>> : rx \in RawValues, ry \in RawValues}
\* num_poses = 1: no pose, or exactly one.
DetectionResults == {<<>>} \cup {<<l>> : l \in Landmarks}

isOpened(c) == c = "open"

\* ------------------------------------------------------------- Init
Init ==
    /\ pc = "start"
    /\ detector = "none" /\ cap = "none" /\ windows = "none"
    /\ last_x = Half /\ last_y = Half /\ person_detected = FALSE
    /\ fps = <<0, 1>> /\ frame_count = 0 /\ start_time = 0 /\ timestamp_ms = 0
    /\ now = 0 /\ elapsed = 0
    /\ pose_landmarks = <<>> /\ xy = <<>> /\ sent = <<>> /\ attempts = <<>>
    /\ shown = <<>>
    /\ trigger = "none" /\ exc = FALSE /\ entered = FALSE
    /\ last_ts = 0
    /\ nRead = 0 /\ nInfer = 0 /\ nX = 0 /\ nY = 0 /\ nFail = 0
    /\ nCleanup = 0 /\ nFpsUpdates = 0

\* Clock values a call of time.time() may return after the reading `t`.
ClockAfter(t) == {u \in t..(t + MaxAdvance) : u <= MaxTime}

\* ------------------------------------------------- __init__ and main
\* Variant of the camera check that never reports a failure.
CannotOpenNever(c) == FALSE
\* if not self.cap.isOpened(): raise RuntimeError
CannotOpen(c) == ~isOpened(c)

\* main() calling PersonTrackerOSC(...): the model asset may be unreadable,
\* the camera may fail to open.
Construct ==
    /\ pc = "start"
    /\ \E model_ok \in BOOLEAN, opened \in BOOLEAN, t \in ClockAfter(now) :
        IF ~model_ok
        THEN \* create_from_options raises; main() catches and returns
             /\ pc' = "done" /\ exc' = TRUE
             /\ UNCHANGED <<tracker, resources, now, entered>>
        ELSE LET c == IF opened THEN "open" ELSE "unopened" IN
             /\ detector' = "open"
             /\ cap' = c
             /\ UNCHANGED windows
             /\ IF CannotOpen(c)
                THEN /\ pc' = "done" /\ exc' = TRUE
                     /\ UNCHANGED <<tracker, now, entered>>
                ELSE /\ last_x' = Half /\ last_y' = Half
                     /\ person_detected' = FALSE
                     /\ fps' = <<0, 1>> /\ frame_count' = 0
                     /\ start_time' = t /\ now' = t
                     /\ timestamp_ms' = 0
                     /\ pc' = "loop" /\ entered' = TRUE
                     /\ UNCHANGED exc
    /\ UNCHANGED <<frameLocals, counters, trigger>>

\* ------------------------------------------------------------- run
\* Variant of the read failure branch that tries the camera again.
OnReadFailureRetry == "loop"
\* if not success: break
OnReadFailure == "cleanup"

\* while self.cap.isOpened(): success, image = self.cap.read()
ReadFrame ==
    /\ pc = "loop"
    /\ IF ~isOpened(cap)
       THEN /\ pc' = "cleanup"
            /\ UNCHANGED <<trigger, frameLocals, counters>>
       ELSE \E success \in (IF nRead < MaxFrames THEN BOOLEAN ELSE {FALSE}) :
            IF ~success
            THEN /\ trigger' = "read_fail"
                 /\ pc' = OnReadFailure
                 /\ UNCHANGED <<frameLocals, counters>>
            ELSE /\ nRead' = nRead + 1
                 \* a new iteration: the locals of the previous one are dead
                 /\ sent' = <<>> /\ attempts' = <<>>
                 /\ pose_landmarks' = <<>> /\ shown' = <<>> /\ elapsed' = 0
                 /\ pc' = "detect"
                 /\ UNCHANGED <<trigger, xy,
                                nInfer, nX, nY, nFail, nCleanup, nFpsUpdates,
                                last_ts>>
    /\ UNCHANGED <<tracker, resources, now, exc, entered>>

\* Variant of the timestamp update that leaves the timestamp alone.
NextTimestampStuck(ts) == ts
\* self.timestamp_ms += 33
NextTimestamp(ts) == ts + TimestampStep

\* Variant of the no-person branch that recentres the held position.
HeldOnNoPersonReset(v) == Half
\* else: self.person_detected = False   (last_x, last_y are not assigned)
HeldOnNoPerson(v) == v

\* Lines 222-254 up to the call of send_osc_data: preprocess, advance the
\* timestamp, call the detector, branch on its result.
Detect ==
    /\ pc = "detect"
    /\ timestamp_ms' = NextTimestamp(timestamp_ms)
    /\ nInfer' = nInfer + 1
    /\ last_ts' = timestamp_ms'
    /\ \E raises \in BOOLEAN, r \in DetectionResults :
        IF raises
        THEN \* detect_for_video raised: the finally clause runs next
             /\ trigger' = "exception" /\ exc' = TRUE
             /\ pc' = "cleanup"
             /\ UNCHANGED <<last_x, last_y, person_detected, pose_landmarks, xy>>
        ELSE /\ pose_landmarks' = r
             /\ UNCHANGED <<trigger, exc>>
             /\ IF r # <<>>
                THEN /\ person_detected' = TRUE
                     /\ xy' = get_closest_person_position(r[1])
                     /\ last_x' = xy'[1]
                     /\ last_y' = xy'[2]
                     /\ pc' = "send_x"
                ELSE /\ person_detected' = FALSE
                     /\ last_x' = HeldOnNoPerson(last_x)
                     /\ last_y' = HeldOnNoPerson(last_y)
                     /\ pc' = "overlay"
                     /\ UNCHANGED xy
    /\ UNCHANGED <<resources, fps, frame_count, start_time, now, elapsed,
                   sent, attempts, shown, entered,
                   nRead, nX, nY, nFail, nCleanup, nFpsUpdates>>

\* Variant of send_osc_data that returns after the x message.
AfterXReturn == "overlay"
\* the statement after a successful send of x is the send of y
AfterX == "send_y"

\* Variant of the handler that lets the failure leave the loop.
AfterXErrorLeave == "cleanup"
\* Variant with a handler around each send: y is tried after x raised.
AfterXErrorTryY == "send_y"
\* except Exception: print(...) ; send_osc_data returns
AfterXError == "overlay"

\* self.osc_client.send_message("/stage/person1/x", x)
SendX ==
    /\ pc = "send_x"
    /\ attempts' = Append(attempts, AddrX)
    /\ \E ok \in BOOLEAN :
        IF ok
        THEN /\ sent' = Append(sent, [addr |-> AddrX, val |-> xy[1]])
             /\ nX' = nX + 1
             /\ pc' = AfterX
             /\ UNCHANGED nFail
        ELSE /\ nFail' = nFail + 1
             /\ pc' = AfterXError
             /\ UNCHANGED <<sent, nX>>
    /\ UNCHANGED <<tracker, resources, now, elapsed, pose_landmarks, xy, shown,
                   trigger, exc, entered,
                   nRead, nInfer, nY, nCleanup, nFpsUpdates, last_ts>>

\* self.osc_client.send_message("/stage/person1/y", y)
SendY ==
    /\ pc = "send_y"
    /\ attempts' = Append(attempts, AddrY)
    /\ \E ok \in BOOLEAN :
        IF ok
        THEN /\ sent' = Append(sent, [addr |-> AddrY, val |-> xy[2]])
             /\ nY' = nY + 1
             /\ UNCHANGED nFail
        ELSE /\ nFail' = nFail + 1
             /\ UNCHANGED <<sent, nY>>
    /\ pc' = "overlay"
    /\ UNCHANGED <<tracker, resources, now, elapsed, pose_landmarks, xy, shown,
                   trigger, exc, entered,
                   nRead, nInfer, nX, nCleanup, nFpsUpdates, last_ts>>

\* self.draw_info_overlay(image, self.last_x, self.last_y)
Overlay ==
    /\ pc = "overlay"
    /\ shown' = <<last_x, last_y>>
    /\ pc' = "fps"
    /\ UNCHANGED <<tracker, resources, now, elapsed, pose_landmarks, xy, sent,
                   attempts, trigger, exc, entered, counters>>

\* Variant of the window test that is always true.
WindowOverAlways(e) == TRUE
\* if elapsed > 1.0
WindowOver(e) == e > OneSec

\* self.update_fps()
update_fps ==
    /\ pc = "fps"
    /\ \E t1 \in ClockAfter(now) :
        LET fc == frame_count + 1
            e == t1 - start_time
        IN  /\ elapsed' = e
            /\ IF WindowOver(e)
               THEN \E t2 \in ClockAfter(t1) :
                    /\ fps' = <<fc, e>>
                    /\ frame_count' = 0
                    /\ start_time' = t2
                    /\ now' = t2
                    /\ nFpsUpdates' = nFpsUpdates + 1
               ELSE /\ frame_count' = fc
                    /\ now' = t1
                    /\ UNCHANGED <<fps, start_time, nFpsUpdates>>
    /\ pc' = "show"
    /\ UNCHANGED <<last_x, last_y, person_detected, timestamp_ms, resources,
                   pose_landmarks, xy, sent, attempts, shown, trigger, exc,
                   entered, nRead, nInfer, nX, nY, nFail, nCleanup, last_ts>>

\* cv2.waitKey(1) & 0xFF == ord('q')
IsQuit(key) == (key % ByteMask) = QuitKey

\* cv2.imshow(...) then the quit poll; the display calls may raise.
ShowAndPoll ==
    /\ pc = "show"
    /\ \E raises \in BOOLEAN, key \in KeyCodes :
        IF raises
        THEN /\ trigger' = "exception" /\ exc' = TRUE
             /\ pc' = "cleanup"
             /\ UNCHANGED windows
        ELSE /\ windows' = "open"
             /\ UNCHANGED exc
             /\ IF IsQuit(key)
                THEN trigger' = "quit" /\ pc' = "cleanup"
                ELSE pc' = "loop" /\ UNCHANGED trigger
    /\ UNCHANGED <<tracker, detector, cap, now, frameLocals, entered, counters>>

\* finally: self.cleanup(); then run() returns or re-raises into main()
cleanup ==
    /\ pc = "cleanup"
    /\ cap' = "released"
    /\ windows' = "destroyed"
    /\ detector' = "closed"
    /\ nCleanup' = nCleanup + 1
    /\ pc' = "done"
    /\ UNCHANGED <<tracker, now, frameLocals, trigger, exc, entered,
                   nRead, nInfer, nX, nY, nFail, nFpsUpdates, last_ts>>

Next ==
    \/ Construct
    \/ ReadFrame
    \/ Detect
    \/ SendX
    \/ SendY
    \/ Overlay
    \/ update_fps
    \/ ShowAndPoll
    \/ cleanup

Spec == Init /\ [][Next]_vars

\* ------------------------------------------------------------ claims
\* The publish phase of the current frame is over.
Published == pc \in {"overlay", "fps", "show"}

\* The current frame had a person / had none (only meaningful after Detect).
Person == pose_landmarks # <<>>

MsgX == [addr |-> AddrX, val |-> xy[1]]
MsgY == [addr |-> AddrY, val |-> xy[2]]

\* The clamp as the specification words it.
Expected(v) == IF v < Zero THEN Zero ELSE IF v > One THEN One ELSE v
InUnit(v) == v \in Zero..One

\* C1 as stated: a frame with a person publishes exactly two messages, one
\* per address, whatever the transport does; a frame without publishes none.
C1_Original ==
    Published =>
        IF Person
        THEN Len(sent) = 2 /\ sent[1].addr = AddrX /\ sent[2].addr = AddrY
        ELSE sent = <<>>

\* C1 amended: a frame without a person publishes nothing; a frame with a
\* person publishes x then y when neither send raises, nothing when the x
\* send raises (y is then not attempted), and x alone when the y send raises.
C1_TwoMessagesUnlessSendRaises ==
    Published =>
        IF ~Person
        THEN sent = <<>> /\ attempts = <<>>
        ELSE IF Len(attempts) = Len(sent)
             THEN sent = <<MsgX, MsgY>>
             ELSE \/ attempts = <<AddrX>> /\ sent = <<>>
                  \/ attempts = <<AddrX, AddrY>> /\ sent = <<MsgX>>

\* A frame that published both messages, after an earlier frame lost one.
C1_Witness ==
    pc = "overlay" /\ Person /\ Len(sent) = 2 /\ nFail > 0

\* C2: the extractor maps every raw nose value into [0.0, 1.0], leaving
\* values in range alone and moving the others to the nearer end, the clamp
\* is idempotent, and every value held in last_x / last_y, handed to
\* send_osc_data or published lies in [0.0, 1.0].
C2_ClampedEverywhere ==
    /\ InUnit(last_x) /\ InUnit(last_y)
    /\ xy # <<>> => InUnit(xy[1]) /\ InUnit(xy[2])
    /\ \A i \in 1..Len(sent) : InUnit(sent[i].val)
    /\ Person =>
        LET nose == pose_landmarks[1][1] IN
        /\ xy = <<Expected(nose.x), Expected(nose.y)>>
        /\ clamp(clamp(nose.x)) = clamp(nose.x)
        /\ clamp(clamp(nose.y)) = clamp(nose.y)
        /\ (nose = [x |-> 15, y |-> -2]) => xy = <<10, 0>>
        /\ <<last_x, last_y>> = xy

\* The nose (1.5, -0.2) was extracted as (1.0, 0.0) and is about to be sent.
C2_Witness ==
    /\ pc = "send_x"
    /\ Person
    /\ pose_landmarks[1][1] = [x |-> 15, y |-> -2]
    /\ xy = <<One, Zero>>

\* The position of the most recent frame with a person, centre if none.
Held == IF xy = <<>> THEN <<Half, Half>> ELSE xy

\* C3: on a frame without a person the overlay is given the clamped
\* position of the most recent frame with a person, (0.5, 0.5) if there
\* was none; such a frame leaves last_x, last_y alone and publishes nothing.
C3_HeldPosition ==
    /\ []((pc \in {"fps", "show"} /\ ~Person) =>
            /\ shown = Held
            /\ <<last_x, last_y>> = Held
            /\ sent = <<>> /\ attempts = <<>>)
    /\ [][(pc = "detect" /\ pc' = "overlay") =>
            /\ ~Person'
            /\ last_x' = last_x /\ last_y' = last_y
            /\ nX' = nX /\ nY' = nY]_vars

\* Frames person (0.3, 0.7), no person, no person: the third overlay shows
\* (0.3, 0.7).
C3_Witness ==
    /\ pc = "fps" /\ ~Person /\ nRead = 3 /\ nInfer = 3
    /\ nX = 1 /\ nY = 1
    /\ shown = <<3, 7>>

\* C4: a read failure, a 'q' key or an exception in the loop ends the loop at
\* once: nothing is read, inferred or published afterwards, cleanup runs
\* exactly once and releases camera, windows and detector before the
\* program terminates; 'q' raises nothing.
C4_Shutdown ==
    /\ [](/\ trigger # "none" => pc \in {"cleanup", "done"} /\ entered
          /\ (entered /\ pc # "done") => nCleanup = 0
          /\ (entered /\ pc = "done") =>
                /\ nCleanup = 1
                /\ cap = "released" /\ windows = "destroyed"
                /\ detector = "closed"
          /\ trigger = "quit" => ~exc)
    /\ [][/\ (trigger = "none" /\ trigger' # "none") => pc' = "cleanup"
          /\ trigger # "none" =>
                /\ trigger' = trigger
                /\ nRead' = nRead /\ nInfer' = nInfer
                /\ nX' = nX /\ nY' = nY /\ attempts' = attempts]_vars

\* The program terminated after 'q' was pressed on its second frame.
C4_Witness ==
    /\ pc = "done" /\ trigger = "quit" /\ nCleanup = 1 /\ nRead = 2
    /\ detector = "closed" /\ cap = "released"

\* C5 as stated: in every terminal state no handle acquired at startup is
\* still held, exits from the constructor included.
C5_AllReleasedAtExit ==
    pc = "done" => detector # "open" /\ cap # "open"

\* C6: when the camera cannot be opened the constructor raises: run() is
\* never entered, no frame is read, no inference is made, nothing is sent.
C6_NoCameraNoLoop ==
    cap = "unopened" =>
        /\ pc = "done" /\ exc /\ ~entered
        /\ nRead = 0 /\ nInfer = 0 /\ timestamp_ms = 0
        /\ attempts = <<>> /\ sent = <<>> /\ nX = 0 /\ nY = 0
        /\ nCleanup = 0

\* The constructor failed on the camera and the program has terminated.
C6_Witness == cap = "unopened" /\ pc = "done" /\ exc

\* C7: a send that raises is caught: the loop goes on to render the frame
\* and poll the key with the held position already updated, no exception
\* leaves run(), and the next frame with a person attempts to publish again.
C7_SendFailureContinues ==
    /\ [][/\ (pc \in {"send_x", "send_y"} /\ nFail' > nFail) =>
                /\ pc' = "overlay" /\ trigger' = "none" /\ ~exc'
                /\ person_detected'
                /\ <<last_x', last_y'>> = xy
          /\ (pc = "overlay" /\ pc' # pc) => pc' = "fps" /\ shown' = <<last_x, last_y>>
          /\ (pc = "fps" /\ pc' # pc) => pc' = "show"
          /\ (pc = "detect" /\ Person') => (pc' = "send_x" /\ attempts' = <<>>)
          /\ (pc = "send_x" /\ pc' # pc) => attempts' = <<AddrX>>]_vars
    /\ []((Published /\ Len(attempts) > Len(sent)) => trigger = "none" /\ ~exc)

\* The x message of a frame went out although an earlier frame's send failed.
C7_Witness ==
    pc = "send_y" /\ nFail >= 1 /\ sent = <<MsgX>> /\ attempts = <<AddrX>>

\* C8: a call of update_fps changes fps only when at least 1.0 s has passed
\* since the window start; otherwise fps is unchanged and only frame_count
\* grows by one.  An update sets fps to (frame_count + 1) / elapsed, resets
\* the counter and moves the window start to the end of the old window or
\* later; before the first update fps is 0.
C8_FpsWindow ==
    /\ [][/\ fps' # fps => (pc = "fps" /\ elapsed' >= OneSec)
          /\ pc = "fps" =>
                IF elapsed' > OneSec
                THEN /\ fps' = <<frame_count + 1, elapsed'>>
                     /\ frame_count' = 0
                     /\ start_time' >= start_time + elapsed'
                     /\ nFpsUpdates' = nFpsUpdates + 1
                ELSE /\ fps' = fps
                     /\ frame_count' = frame_count + 1
                     /\ start_time' = start_time
                     /\ nFpsUpdates' = nFpsUpdates]_vars
    /\ [](nFpsUpdates = 0 => fps = <<0, 1>>)

\* The second frame closed a window of 1.5 s: fps is 2 / 1.5.
C8_Witness ==
    pc = "show" /\ nFpsUpdates = 1 /\ fps = <<2, 3>> /\ frame_count = 0

\* C9: timestamp_ms starts at 0 and changes only by +33 right before an
\* inference call, so the k-th call receives 33 * k, strictly more than the
\* call before it; every frame read leads to exactly one inference call.
C9_Timestamp ==
    /\ [](/\ timestamp_ms = 33 * nInfer
          /\ last_ts = 33 * nInfer
          /\ nRead = (IF pc = "detect" THEN nInfer + 1 ELSE nInfer))
    /\ [][/\ timestamp_ms' # timestamp_ms =>
                (pc = "detect" /\ timestamp_ms' = timestamp_ms + 33)
          /\ nInfer' # nInfer =>
                /\ pc = "detect" /\ nInfer' = nInfer + 1
                /\ last_ts' > last_ts
                /\ last_ts' = 33 * nInfer']_vars

\* The third inference call received 99 although a send had failed before.
C9_Witness == nInfer = 3 /\ last_ts = 99 /\ nFail >= 1 /\ pc = "overlay"

\* C10: in a frame x is attempted before y and y only after the x send
\* returned; there are never more y than x messages, and a y message
\* follows the x message of its own frame and carries that frame's y.
C10_XBeforeY ==
    /\ nY <= nX
    /\ attempts \in {<<>>, <<AddrX>>, <<AddrX, AddrY>>}
    /\ Len(sent) <= Len(attempts)
    /\ attempts # <<>> => Person
    /\ attempts = <<AddrX, AddrY>> =>
            (Len(sent) >= 1 /\ sent[1].addr = AddrX)
    /\ pc = "send_y" => (attempts = <<AddrX>> /\ Len(sent) = 1)
    /\ \A i \in 1..Len(sent) :
            sent[i].addr = AddrY =>
                LET nose == pose_landmarks[1][1] IN
                /\ i = 2
                /\ sent[1] = [addr |-> AddrX, val |-> Expected(nose.x)]
                /\ sent[2].val = Expected(nose.y)

\* Three x messages and two y messages were sent; the current frame sent both.
C10_Witness == nX = 3 /\ nY = 2 /\ Len(sent) = 2 /\ sent[2].addr = AddrY
====
